---- MODULE Spec2Model ----
(***************************************************************************)
(* Model of the React front end of the biotech regulatory assistant: the   *)
(* App shell (tabs, questionnaire submission, chat log), the four versions *)
(* of the Chatbot component kept in Chatbot.js, and the DocumentManager    *)
(* upload form.                                                            *)
(*                                                                         *)
(* Strings are sequences of one-character strings so that trim(),          *)
(* toLowerCase(), lastIndexOf() and slice() are computed, not assumed.     *)
(***************************************************************************)
EXTENDS Integers, Sequences, FiniteSets, TLC

\* ------------------------------------------------------------------ bounds
MaxRequests == 2     \* chat turns, attachment uploads and questionnaire posts per behaviour
MaxSubmits == 1      \* questionnaire submissions per behaviour
MaxDocRequests == 2   \* document manager uploads and deletions per behaviour

\* ------------------------------------------------------- program constants
MaxFileBytes == 10485760   \* 10 * 1024 * 1024

\* --------------------------------------------------------------- versions
\* Chatbot.js holds four versions of the component:
\*   "props"  lines 22-451    log owned by App, fetch /chat
\*   "api"    lines 588-804   local log, fetch /api/chat
\*   "attach" lines 947-1262  local log, attachments, fetch /api/chat/
\*   "sim"    lines 1398-1500 local log, simulated call (timer)
Versions == {"props", "api", "attach", "sim"}

\* ----------------------------------------------------------------- strings
Blank == " "

RECURSIVE TrimLeft(_)
TrimLeft(s) == IF s # <<>> /\ Head(s) = Blank THEN TrimLeft(Tail(s)) ELSE s

RECURSIVE TrimRight(_)
TrimRight(s) ==
  IF s # <<>> /\ s[Len(s)] = Blank THEN TrimRight(SubSeq(s, 1, Len(s) - 1)) ELSE s

\* String.prototype.trim
Trim(s) == TrimRight(TrimLeft(s))

\* what the user can have typed into the input field
Inputs == { <<>>, <<" ">>, <<" ", "a">> }

DefaultAttachText == <<"P", "l", "s">>   \* "Please analyze the attached document."
SimReply == <<"S">>                      \* fixed reply of the simulated version
ApiErrorText == <<"E">>                  \* text of the error entry
Replies == { <<"r">> }                   \* data.response of a successful call

\* ------------------------------------------------------------ questionnaire
NoData == [ null |-> TRUE ]   \* useState(null)

InitialForm ==
  [ intended_purpose |-> "", life_threatening |-> FALSE, user_type |-> "",
    requires_sterilization |-> FALSE, body_contact_duration |-> "" ]

\* the edits a user makes to the form in this model
Edits == { <<"intended_purpose", "diagnostic">> }

\* the edits that complete the form: one choice for each of its three selects
FormEdits ==
  { <<"intended_purpose", "diagnostic">>, <<"user_type", "patient">>,
    <<"user_type", "both">>, <<"body_contact_duration", "temporary">> }

\* guideline lists the server answers with, as their relevance scores: the
\* matcher returns them sorted by non-increasing score
GuidelineLists == { <<>>, <<2, 1>>, <<2, 2, 1>> }

\* RegulatoryDisplay: an empty list shows the "No regulatory guidelines
\* available yet" text, anything else the product profile and the list
GuidelinesView(gl, qd) ==
  IF Len(gl) = 0 THEN [ empty |-> TRUE ] ELSE [ profile |-> qd, list |-> gl ]

\* --------------------------------------------------------------- messages
\* type is 'user' / 'bot' / 'system' (isUser: true / false in the later
\* versions); turn numbers the send a message belongs to (its timestamp);
\* data holds the values interpolated into a system message
Msg(type, isError, text, turn) ==
  [ type |-> type, isError |-> isError, text |-> text, turn |-> turn, data |-> <<>> ]

WelcomeMsg == Msg("system", FALSE, <<"Welcome">>, 0)

\* the questionnaire summary: its content embeds the answers and the
\* number of uploaded documents at the time it is written
SummaryMsg(qd, docs) ==
  [ Msg("system", FALSE, <<"Thank you for providing your information.">>, 0)
      EXCEPT !.data = <<qd, docs > 0>> ]

IsSummary(m) ==
  /\ m.type = "system"
  /\ Len(m.text) > 0
  /\ m.text[1] = "Thank you for providing your information."

HasSummary(msgs) == \E i \in 1..Len(msgs) : IsSummary(msgs[i])

HasData(qd) == qd # NoData

\* an App effect without the hasSummary check
AppEffect_NoCheck(msgs, qd, docs) ==
  IF HasData(qd)
    THEN <<SummaryMsg(qd, docs)>>
    ELSE IF Len(msgs) = 0 THEN <<WelcomeMsg>> ELSE msgs

\* App effect "Update chat messages when questionnaire is submitted"
AppEffect(msgs, qd, docs) ==
  IF HasData(qd)
    THEN IF ~HasSummary(msgs) THEN <<SummaryMsg(qd, docs)>> ELSE msgs
    ELSE IF Len(msgs) = 0 THEN <<WelcomeMsg>> ELSE msgs

\* Chatbot (props version) effect for questionnaire data and documents
ChatbotEffect(msgs, qd, docs) ==
  IF Len(msgs) = 0 /\ ~HasData(qd)
    THEN <<WelcomeMsg>>
    ELSE IF HasData(qd) /\ ~HasSummary(msgs) THEN <<SummaryMsg(qd, docs)>> ELSE msgs

\* one render pass: the child's effect runs before the parent's, both set the
\* log from the same snapshot, the later call wins
EffectPass(msgs, qd, docs, mounted) ==
  LET p == AppEffect(msgs, qd, docs)
      c == IF mounted THEN ChatbotEffect(msgs, qd, docs) ELSE msgs
  IN  IF p # msgs THEN p ELSE c

\* the effects run again after the log they set is rendered
Settle(msgs, qd, docs, mounted) ==
  EffectPass(EffectPass(msgs, qd, docs, mounted), qd, docs, mounted)

\* -------------------------------------------------------------------- tabs
QuestionnaireTab == 0
DocumentsTab == 2    \* only the App of the props version has a Documents tab
ChatTab(v) == IF v = "props" THEN 3 ELSE 2
Tabs(v) == IF v = "props" THEN 0..3 ELSE 0..2

\* ------------------------------------------------------------------- files
PdfName == <<"a", ".", "P", "d", "f">>
ExeName == <<"b", ".", "e", "x", "e">>
NoDotName == <<"p", "d", "f">>

File(name, size) == [ name |-> name, size |-> size ]

NoFile == [ null |-> TRUE ]   \* formData.file: null

\* files the user can pick in the chat's file input
ChatFiles == { File(PdfName, 1), File(PdfName, MaxFileBytes + 1), File(ExeName, 1) }

\* files the user can pick in the document manager's upload dialog
DocFiles ==
  { File(PdfName, MaxFileBytes), File(PdfName, MaxFileBytes + 1),
    File(ExeName, 1), File(NoDotName, 1) }

\* String.prototype.toLowerCase on the letters that occur in the file names
ToLowerChar(c) ==
  CASE c = "P" -> "p" [] c = "D" -> "d" [] c = "F" -> "f" [] OTHER -> c

ToLowerCase(s) == [ i \in 1..Len(s) |-> ToLowerChar(s[i]) ]

\* String.prototype.lastIndexOf: 0-based, -1 when the character is absent
LastIndexOf(s, c) ==
  IF \E i \in 1..Len(s) : s[i] = c
    THEN (CHOOSE i \in 1..Len(s) : s[i] = c /\ \A j \in (i + 1)..Len(s) : s[j] # c) - 1
    ELSE -1

\* String.prototype.slice(start): a negative start counts from the end
Slice(s, start) ==
  LET from == IF start < 0
                THEN (IF Len(s) + start < 0 THEN 0 ELSE Len(s) + start)
                ELSE (IF start > Len(s) THEN Len(s) ELSE start)
  IN  SubSeq(s, from + 1, Len(s))

AllowedTypes ==
  { <<".", "p", "d", "f">>, <<".", "d", "o", "c">>,
    <<".", "d", "o", "c", "x">>, <<".", "t", "x", "t">> }

\* fileExtension as handleUpload computes it
FileExtension(name) == Slice(ToLowerCase(name), LastIndexOf(name, "."))

\* the checks of DocumentManager.handleUpload: "ok" or the error it sets
UploadVerdict(file) ==
  IF file = NoFile THEN "Please select a file to upload"
  ELSE IF file.size > MaxFileBytes THEN "File size must be less than 10MB"
  ELSE IF FileExtension(file.name) \notin AllowedTypes
    THEN "Only PDF, Word, and text files are allowed"
  ELSE "ok"


\* ------------------------------------------------------------------- state
VARIABLES
  version,          \* which Chatbot version is mounted by the App
  tab,              \* App: tabValue / currentTab
  messages,         \* the conversation log (App state in "props", else local)
  questionnaireData,\* App: questionnaireData
  guidelines,       \* App: guidelines
  documents,        \* App ("props"): number of documents fetched on mount
  docsFetch,        \* App ("props"): the mount-time documents fetch is pending
  formData,         \* Questionnaire: formData
  input,            \* Chatbot: input / newMessage
  isTyping,         \* Chatbot: isTyping / isLoading
  error,            \* Chatbot ("props"): error shown in the Snackbar
  files,            \* Chatbot ("attach"): files
  attachmentIds,    \* Chatbot ("attach"): attachmentIds
  chatInFlight,     \* pending chat calls (awaits of handleSend)
  uploadInFlight,   \* pending attachment uploads (awaits of handleFileUpload)
  qInFlight,        \* pending questionnaire submissions
  chatCalls,        \* every chat request issued to the server, in order
  uploadCalls,      \* every attachment upload request issued, in order
  nextTurn,         \* number of the next accepted send
  nextId,           \* next attachment id the server hands out
  idOwner,          \* the file each attachment id was handed out for
  submits,          \* questionnaire submissions made so far
  qLog,             \* the posts to /questionnaire in order: answers and outcome
  lastSend,         \* outcome of the last handleSend call: none/rejected/accepted
  dmOpenUpload,     \* DocumentManager: openUpload
  dmFile,           \* DocumentManager: formData.file
  dmError,          \* DocumentManager: error ("null" when none)
  dmSuccess,        \* DocumentManager: success message shown
  dmDocuments,      \* DocumentManager: documents (number of rows)
  dmInFlight,       \* DocumentManager: pending uploads and list fetches
  dmUploadCalls,    \* every document upload request issued, in order
  dmDeleteCalls,    \* every document delete request issued, in order (row deleted)
  dmConfirm,        \* answer to the last window.confirm: none/declined/confirmed
  dmPreview,        \* previewDocument and the DocumentPreview state and requests
  storeDocs         \* number of documents in the server's store

vars == << version, tab, messages, questionnaireData, guidelines, documents,
           docsFetch, formData, input, isTyping, error, files, attachmentIds,
           chatInFlight, uploadInFlight, qInFlight, chatCalls, uploadCalls,
           nextTurn, nextId, idOwner, submits, qLog, lastSend, dmOpenUpload, dmFile, dmError,
           dmSuccess, dmDocuments, dmInFlight, dmUploadCalls, dmDeleteCalls,
           dmConfirm, dmPreview, storeDocs >>

appVars == << questionnaireData, guidelines, documents, docsFetch, qInFlight, submits,
             qLog >>
fileVars == << files, attachmentIds, uploadInFlight, uploadCalls, nextId, idOwner >>
dmVars == << dmOpenUpload, dmFile, dmError, dmSuccess, dmDocuments, dmInFlight,
             dmUploadCalls, dmDeleteCalls, dmConfirm, dmPreview, storeDocs >>
chatVars == << messages, input, isTyping, error, chatInFlight, chatCalls, nextTurn,
               lastSend >>

ChatMounted == tab = ChatTab(version)
DocumentManagerMounted == version = "props" /\ tab = DocumentsTab
QuestionnaireMounted == tab = QuestionnaireTab

\* the log as App keeps it: in "props" the App effect runs after every change
Rendered(msgs, qd, docs, mounted) ==
  IF version = "props" THEN Settle(msgs, qd, docs, mounted) ELSE msgs

\* DocumentManager and DocumentPreview before any preview: previewDocument is
\* null (0), preview is '' (0), nothing is loading, no error
NoPreview == [ previewDocument |-> 0, preview |-> 0, loading |-> FALSE, error |-> FALSE,
               inFlight |-> {}, calls |-> 0 ]

\* the state after the page has loaded: every useState initial value
InitClient ==
  /\ version \in Versions
  /\ tab = 0
  /\ messages = IF version = "props" THEN <<WelcomeMsg>> ELSE <<>>
  /\ questionnaireData = NoData
  /\ guidelines = <<>>
  /\ documents = 0
  /\ docsFetch = (version = "props")
  /\ formData = InitialForm
  /\ input = <<>>
  /\ isTyping = FALSE
  /\ error = FALSE
  /\ files = <<>>
  /\ attachmentIds = <<>>
  /\ chatInFlight = {}
  /\ uploadInFlight = {}
  /\ qInFlight = {}
  /\ chatCalls = <<>>
  /\ uploadCalls = <<>>
  /\ nextTurn = 1
  /\ nextId = 1
  /\ idOwner = <<>>
  /\ submits = 0
  /\ qLog = <<>>
  /\ lastSend = "none"
  /\ dmOpenUpload = FALSE
  /\ dmFile = NoFile
  /\ dmError = "null"
  /\ dmSuccess = FALSE
  /\ dmDocuments = 0
  /\ dmInFlight = {}
  /\ dmUploadCalls = <<>>
  /\ dmDeleteCalls = <<>>
  /\ dmConfirm = "none"
  /\ dmPreview = NoPreview

\* a fresh page load over an empty document store
Init == InitClient /\ storeDocs = 0

\* ---------------------------------------------------------- tab switching
\* TabPanel renders its children only while value = index, so leaving a tab
\* unmounts the component in it and its local state is gone; awaits that are
\* still pending keep running but their local setState calls have no effect.
Orphaned(reqs) == { [r EXCEPT !.orphan = TRUE] : r \in reqs }

\* the smallest request number not in use
FreeNumber(reqs) == CHOOSE n \in 1..(Cardinality(reqs) + 1) : \A r \in reqs : r.n # n

ListFetch(reqs, afterUpload) ==
  [ n |-> FreeNumber(reqs), kind |-> "list", file |-> NoFile, orphan |-> FALSE,
    afterUpload |-> afterUpload ]

\* DocumentManager is mounted with the Documents tab: its mount effect calls
\* fetchDocuments; when the tab is left its state is gone, a pending upload
\* still reaches the server, a pending list fetch has nobody to report to
SwitchDocumentManager(newTab) ==
  LET leave == DocumentManagerMounted /\ newTab # DocumentsTab
      enter == version = "props" /\ newTab = DocumentsTab /\ tab # DocumentsTab
  IN  /\ dmOpenUpload' = IF leave THEN FALSE ELSE dmOpenUpload
      /\ dmFile' = IF leave THEN NoFile ELSE dmFile
      /\ dmError' = IF leave THEN "null" ELSE dmError
      /\ dmSuccess' = IF leave THEN FALSE ELSE dmSuccess
      /\ dmDocuments' = IF leave THEN 0 ELSE dmDocuments
      /\ dmConfirm' = "none"
      /\ dmPreview' = IF leave THEN [NoPreview EXCEPT !.calls = dmPreview.calls]
                       ELSE dmPreview
      /\ dmInFlight' =
           IF leave THEN Orphaned({ r \in dmInFlight : r.kind # "list" })
           ELSE IF enter THEN dmInFlight \cup { ListFetch(dmInFlight, FALSE) }
           ELSE dmInFlight

\* effect of setTabValue(newTab) on everything but the log
SwitchTab(newTab) ==
  LET leaveChat == ChatMounted /\ newTab # ChatTab(version)
      leaveForm == QuestionnaireMounted /\ newTab # QuestionnaireTab
  IN  /\ tab' = newTab
      /\ input' = IF leaveChat THEN <<>> ELSE input
      /\ isTyping' = IF leaveChat THEN FALSE ELSE isTyping
      /\ error' = IF leaveChat THEN FALSE ELSE error
      /\ files' = IF leaveChat THEN <<>> ELSE files
      /\ attachmentIds' = IF leaveChat THEN <<>> ELSE attachmentIds
      /\ chatInFlight' = IF leaveChat THEN Orphaned(chatInFlight) ELSE chatInFlight
      /\ uploadInFlight' = IF leaveChat THEN Orphaned(uploadInFlight) ELSE uploadInFlight
      /\ formData' = IF leaveForm THEN InitialForm ELSE formData
      /\ SwitchDocumentManager(newTab)

\* the log after setTabValue(newTab), given the App state after the handler
LogAfterSwitch(newTab, qd) ==
  IF version = "props"
    THEN Settle(messages, qd, documents, newTab = ChatTab(version))
    ELSE IF ChatMounted /\ newTab # ChatTab(version) THEN <<>> ELSE messages

\* App.handleTabChange
TabChange(newTab) ==
  /\ newTab \in Tabs(version)
  /\ newTab # tab
  /\ SwitchTab(newTab)
  /\ messages' = LogAfterSwitch(newTab, questionnaireData)
  /\ lastSend' = "none"
  /\ UNCHANGED << version, dmUploadCalls, dmDeleteCalls, storeDocs, appVars, chatCalls, uploadCalls,
                  nextTurn, nextId, idOwner >>

\* ------------------------------------------------------------- chat: send
\* handleSend with the emptiness test made on the untrimmed input
CanSend_NoTrim(v, inp, fs, ids) ==
  IF v = "attach"
    THEN /\ ~(inp = <<>> /\ Len(fs) = 0)
         /\ ~(Len(fs) > Len(ids))
    ELSE inp # <<>>

\* handleSend's early returns
CanSend(v, inp, fs, ids) ==
  IF v = "attach"
    THEN /\ ~(Trim(inp) = <<>> /\ Len(fs) = 0)
         /\ ~(Len(fs) > Len(ids))
    ELSE Trim(inp) # <<>>

\* the text of the user message
SendText(v, inp) ==
  CASE v = "props" -> inp
    [] v = "attach" -> IF Trim(inp) # <<>> THEN Trim(inp) ELSE DefaultAttachText
    [] OTHER -> Trim(inp)

\* the send button's disabled attribute, negated
ButtonEnabled(v, inp, typing, fs) ==
  CASE v = "props" -> ~(typing \/ Trim(inp) = <<>>)
    [] v = "attach" -> ~(Trim(inp) = <<>> /\ Len(fs) = 0)
    [] OTHER -> ~(Trim(inp) = <<>> \/ typing)

\* a body built from the input field instead of userMessage.text
ChatBody_Untrimmed(v, inp, qd, docs, ids) ==
  CASE v = "props" ->
         [ message |-> inp, questionnaire_data |-> qd,
           has_uploaded_documents |-> docs > 0 ]
    [] v = "api" -> [ content |-> inp ]
    [] v = "attach" -> [ message |-> inp, context |-> <<>>, attachment_ids |-> ids ]
    [] OTHER -> [ timer |-> 1000 ]

\* the JSON body of the chat request
ChatBody(v, inp, qd, docs, ids) ==
  CASE v = "props" ->
         [ message |-> inp, questionnaire_data |-> qd,
           has_uploaded_documents |-> docs > 0 ]
    [] v = "api" -> [ content |-> SendText(v, inp) ]
    [] v = "attach" ->
         [ message |-> SendText(v, inp), context |-> <<>>, attachment_ids |-> ids ]
    [] OTHER -> [ timer |-> 1000 ]

\* the requests the server has received after an accepted send: one fetch,
\* except in the simulated version, which only waits on a timer
IssuedOnSend(v, calls, req) ==
  IF v = "sim" THEN calls ELSE Append(calls, req)

\* a catch block that posts the request again
IssuedOnFail_Retry(v, calls, req) == Append(calls, req)

\* the requests the server has received after the catch block ran
IssuedOnFail(v, calls, req) == calls

\* handleSend up to its await
HandleSend ==
  IF ~CanSend(version, input, files, attachmentIds)
    THEN /\ lastSend' = "rejected"
         /\ UNCHANGED << version, dmVars, tab, messages, appVars, formData, input, isTyping,
                         error, fileVars, chatInFlight, chatCalls, nextTurn >>
    ELSE LET userMessage == Msg("user", FALSE, SendText(version, input), nextTurn)
             req == [ turn |-> nextTurn,
                      body |-> ChatBody(version, input, questionnaireData,
                                        documents, attachmentIds),
                      orphan |-> FALSE,
                      logLen |-> Len(messages) ]   \* length of the log at the call
         IN  /\ (nextTurn - 1) + Len(uploadCalls) + Len(qLog) < MaxRequests
             /\ messages' = Rendered(Append(messages, userMessage),
                                     questionnaireData, documents, TRUE)
             /\ input' = <<>>
             /\ isTyping' = TRUE
             /\ error' = FALSE
             /\ chatInFlight' = chatInFlight \cup {req}
             /\ chatCalls' = IssuedOnSend(version, chatCalls, [turn |-> req.turn, body |-> req.body])
             /\ nextTurn' = nextTurn + 1
             /\ lastSend' = "accepted"
             /\ UNCHANGED << version, dmVars, tab, appVars, formData, fileVars >>

\* onChange of the text field
SetInput(v) ==
  /\ ChatMounted
  /\ v # input
  /\ input' = v
  /\ lastSend' = "none"
  /\ UNCHANGED << version, dmVars, tab, messages, appVars, formData, isTyping, error,
                  fileVars, chatInFlight, chatCalls, nextTurn >>

\* onClick of the send button (a disabled button gives no click)
SendClick ==
  /\ ChatMounted
  /\ ButtonEnabled(version, input, isTyping, files)
  /\ HandleSend

\* handleKeyPress with Enter and no Shift
KeyPressEnter ==
  /\ ChatMounted
  /\ HandleSend

\* --------------------------------------------------------- chat: completion
\* setMessages in the success branch
LogOnOk(v, msgs, req, reply) ==
  IF v = "props" \/ ~req.orphan
    THEN Append(msgs, Msg("bot", FALSE, reply, req.turn))
    ELSE msgs

\* a catch block that appends its text as an ordinary reply
LogOnFail_Fabricates(v, msgs, req) ==
  IF v \in {"api", "attach"} /\ ~req.orphan
    THEN Append(msgs, Msg("bot", FALSE, ApiErrorText, req.turn))
    ELSE msgs

\* setMessages in the catch block: the props version shows a Snackbar instead
LogOnFail(v, msgs, req) ==
  IF v \in {"api", "attach"} /\ ~req.orphan
    THEN Append(msgs, Msg("bot", TRUE, ApiErrorText, req.turn))
    ELSE msgs

\* a finally block that leaves the indicator as it is
TypingAfter_Stuck(req, typing) == typing

\* the finally block: setIsTyping(false) / setIsLoading(false)
TypingAfter(req, typing) == IF req.orphan THEN typing ELSE FALSE

\* a success branch that leaves the attachments in place
AttachmentsAfterOk_Kept(v, req, list) == list

\* setFiles([]) and setAttachmentIds([]) after a successful message
AttachmentsAfterOk(v, req, list) ==
  IF v = "attach" /\ ~req.orphan THEN <<>> ELSE list

\* the response is OK: handleSend after its await, success branch and finally
ChatResponse(req, reply) ==
  /\ req \in chatInFlight
  /\ version = "sim" => reply = SimReply
  /\ version # "sim" => reply \in Replies
  /\ chatInFlight' = chatInFlight \ {req}
  /\ messages' = Rendered(LogOnOk(version, messages, req, reply),
                          questionnaireData, documents, ChatMounted)
  /\ isTyping' = TypingAfter(req, isTyping)
  /\ files' = AttachmentsAfterOk(version, req, files)
  /\ attachmentIds' = AttachmentsAfterOk(version, req, attachmentIds)
  /\ lastSend' = "none"
  /\ UNCHANGED << version, dmVars, tab, appVars, formData, input, error, uploadInFlight,
                  uploadCalls, nextId, idOwner, chatCalls, nextTurn >>

\* fetch rejects or the response is not OK: catch block and finally
ChatFail(req) ==
  /\ req \in chatInFlight
  /\ version # "sim"
  /\ chatInFlight' = chatInFlight \ {req}
  /\ messages' = Rendered(LogOnFail(version, messages, req),
                          questionnaireData, documents, ChatMounted)
  /\ error' = IF version = "props" /\ ~req.orphan THEN TRUE ELSE error
  /\ isTyping' = TypingAfter(req, isTyping)
  /\ chatCalls' = IssuedOnFail(version, chatCalls, [turn |-> req.turn, body |-> req.body])
  /\ lastSend' = "none"
  /\ UNCHANGED << version, dmVars, tab, appVars, formData, input, fileVars, nextTurn >>

\* Snackbar onClose / autoHideDuration
CloseError ==
  /\ ChatMounted
  /\ error
  /\ error' = FALSE
  /\ lastSend' = "none"
  /\ UNCHANGED << version, dmVars, tab, messages, appVars, formData, input, isTyping,
                  fileVars, chatInFlight, chatCalls, nextTurn >>

\* ------------------------------------------------------- chat: attachments
RemoveAt(seq, index) ==
  [ j \in 1..(IF index \in 1..Len(seq) THEN Len(seq) - 1 ELSE Len(seq)) |->
      IF j < index THEN seq[j] ELSE seq[j + 1] ]

\* ids the server returns for an upload: one fresh id per file
NewIds(n, first) == [ j \in 1..n |-> first + j - 1 ]

\* handleFileUpload up to its await: no check of size or name is made
HandleFileUpload(newFiles) ==
  /\ version = "attach"
  /\ ChatMounted
  /\ (nextTurn - 1) + Len(uploadCalls) < MaxRequests
  /\ files' = files \o newFiles
  /\ uploadInFlight' = uploadInFlight \cup
       { [ n |-> Len(uploadCalls) + 1, files |-> newFiles, orphan |-> FALSE ] }
  /\ uploadCalls' = Append(uploadCalls, newFiles)
  /\ lastSend' = "none"
  /\ UNCHANGED << version, dmVars, tab, messages, appVars, formData, input, isTyping, error,
                  attachmentIds, nextId, idOwner, chatInFlight, chatCalls, nextTurn >>

\* the upload response is OK
UploadOk(u) ==
  /\ u \in uploadInFlight
  /\ uploadInFlight' = uploadInFlight \ {u}
  /\ attachmentIds' = IF u.orphan THEN attachmentIds
                      ELSE attachmentIds \o NewIds(Len(u.files), nextId)
  /\ nextId' = nextId + Len(u.files)
  /\ idOwner' = idOwner \o u.files
  /\ lastSend' = "none"
  /\ UNCHANGED << version, dmVars, tab, messages, appVars, formData, input, isTyping, error,
                  files, uploadCalls, chatInFlight, chatCalls, nextTurn >>

\* the upload fails: the catch block only logs
UploadFail(u) ==
  /\ u \in uploadInFlight
  /\ uploadInFlight' = uploadInFlight \ {u}
  /\ lastSend' = "none"
  /\ UNCHANGED << version, dmVars, tab, messages, appVars, formData, input, isTyping, error,
                  files, attachmentIds, uploadCalls, nextId, idOwner, chatInFlight, chatCalls,
                  nextTurn >>

\* handleRemoveFile, from the chip of the file at a (1-based) index
HandleRemoveFile(index) ==
  /\ version = "attach"
  /\ ChatMounted
  /\ index \in 1..Len(files)
  /\ files' = RemoveAt(files, index)
  /\ attachmentIds' = RemoveAt(attachmentIds, index)
  /\ lastSend' = "none"
  /\ UNCHANGED << version, dmVars, tab, messages, appVars, formData, input, isTyping, error,
                  uploadInFlight, uploadCalls, nextId, idOwner, chatInFlight, chatCalls,
                  nextTurn >>

\* ------------------------------------------------------------ questionnaire
\* Questionnaire.handleChange
\* a handleChange that writes into the object that was handed over at submit
FormChange_InPlace(name, value) ==
  /\ QuestionnaireMounted
  /\ formData[name] # value
  /\ formData' = [formData EXCEPT ![name] = value]
  /\ questionnaireData' = IF questionnaireData = NoData THEN NoData
                          ELSE [questionnaireData EXCEPT ![name] = value]
  /\ lastSend' = "none"
  /\ UNCHANGED << version, dmVars, tab, messages, guidelines, documents, docsFetch,
                  qInFlight, submits, qLog, input, isTyping, error, fileVars,
                  chatInFlight, chatCalls, nextTurn >>

FormChange(name, value) ==
  /\ QuestionnaireMounted
  /\ formData[name] # value
  /\ formData' = [formData EXCEPT ![name] = value]
  /\ lastSend' = "none"
  /\ UNCHANGED << version, dmVars, tab, messages, appVars, input, isTyping, error, fileVars,
                  chatInFlight, chatCalls, nextTurn >>

\* Questionnaire.handleSubmit -> handleQuestionnaireSubmit of the App that
\* mounts the props version: it stores the answers and opens the chat tab
QuestionnaireSubmitDirect ==
  /\ version = "props"
  /\ QuestionnaireMounted
  /\ submits < MaxSubmits
  /\ submits' = submits + 1
  /\ lastSend' = "none"
  /\ questionnaireData' = formData
  /\ SwitchTab(ChatTab(version))
  /\ messages' = LogAfterSwitch(ChatTab(version), formData)
  /\ UNCHANGED << version, dmUploadCalls, dmDeleteCalls, storeDocs, guidelines, documents,
                  docsFetch, qInFlight, qLog, chatCalls, uploadCalls, nextTurn, nextId,
                  idOwner >>

\* Questionnaire.handleSubmit -> App.handleQuestionnaireSubmit (App.js) up to
\* its await: the answers are posted to /questionnaire
QuestionnaireSubmit ==
  /\ version # "props"
  /\ QuestionnaireMounted
  /\ (nextTurn - 1) + Len(qLog) < MaxRequests
  /\ submits' = submits + 1
  /\ lastSend' = "none"
  /\ qInFlight' = qInFlight \cup { [ n |-> submits + 1, form |-> formData ] }
  /\ qLog' = Append(qLog, [ form |-> formData, outcome |-> "pending" ])
  /\ UNCHANGED << version, dmVars, tab, messages, questionnaireData, guidelines,
                  documents, docsFetch, formData, input, isTyping, error,
                  fileVars, chatInFlight, chatCalls, nextTurn >>

\* the /questionnaire endpoint accepts the answers only if every field has a
\* value (the two switches always have one)
ValidAnswers(form) ==
  /\ form.intended_purpose # ""
  /\ form.user_type # ""
  /\ form.body_contact_duration # ""

\* setGuidelines with the list turned around
StoredGuidelines_Reversed(gl) == [ j \in 1..Len(gl) |-> gl[Len(gl) + 1 - j] ]

\* setGuidelines(data.guidelines): the list is stored as the server sent it
StoredGuidelines(gl) == gl

\* the /questionnaire response is OK
QuestionnaireOk(q, gl) ==
  /\ q \in qInFlight
  /\ ValidAnswers(q.form)
  /\ qInFlight' = qInFlight \ {q}
  /\ qLog' = [qLog EXCEPT ![q.n].outcome = "ok"]
  /\ questionnaireData' = q.form
  /\ guidelines' = StoredGuidelines(gl)
  /\ IF tab = 1
       THEN UNCHANGED << tab, messages, formData, input, isTyping, error, files,
                         attachmentIds, chatInFlight, uploadInFlight, dmOpenUpload,
                         dmFile, dmError, dmSuccess, dmDocuments, dmInFlight,
                         dmConfirm, dmPreview >>
       ELSE /\ SwitchTab(1)
            /\ messages' = LogAfterSwitch(1, q.form)
  /\ lastSend' = "none"
  /\ UNCHANGED << version, dmUploadCalls, dmDeleteCalls, storeDocs, documents, docsFetch, submits,
                  chatCalls, uploadCalls,
                  nextTurn, nextId, idOwner >>

\* a catch block that forgets the guidelines shown so far
QuestionnaireFail_Clears(q) ==
  /\ q \in qInFlight
  /\ qInFlight' = qInFlight \ {q}
  /\ qLog' = [qLog EXCEPT ![q.n].outcome = "failed"]
  /\ lastSend' = "none"
  /\ guidelines' = <<>>
  /\ UNCHANGED << version, dmVars, tab, messages, questionnaireData, documents,
                  docsFetch, submits, formData, input, isTyping, error, fileVars,
                  chatInFlight, chatCalls, nextTurn >>

\* the /questionnaire call fails: the catch block only logs
QuestionnaireFail(q) ==
  /\ q \in qInFlight
  /\ qInFlight' = qInFlight \ {q}
  /\ qLog' = [qLog EXCEPT ![q.n].outcome = "failed"]
  /\ lastSend' = "none"
  /\ UNCHANGED << version, dmVars, tab, messages, questionnaireData, guidelines, documents,
                  docsFetch, submits, formData, input, isTyping, error, fileVars,
                  chatInFlight, chatCalls, nextTurn >>

\* ---------------------------------------------------------------- documents
\* the App's mount-time fetch of /user-documents resolves with n documents
DocumentsLoaded(n) ==
  /\ docsFetch
  /\ docsFetch' = FALSE
  /\ documents' = n
  /\ messages' = Rendered(messages, questionnaireData, n, ChatMounted)
  /\ lastSend' = "none"
  /\ UNCHANGED << version, dmVars, tab, questionnaireData, guidelines, qInFlight, submits,
                  qLog, formData, input, isTyping, error, fileVars, chatInFlight, chatCalls,
                  nextTurn >>

\* --------------------------------------------------------- document manager
allButDm == << version, tab, messages, appVars, formData, input, isTyping, error,
               fileVars, chatInFlight, chatCalls, nextTurn, lastSend >>

\* the upload button of the page: setOpenUpload(true)
OpenUploadDialog ==
  /\ dmConfirm' = "none"
  /\ UNCHANGED << dmDeleteCalls, dmPreview >>
  /\ DocumentManagerMounted
  /\ ~dmOpenUpload
  /\ dmPreview.previewDocument = 0
  /\ dmOpenUpload' = TRUE
  /\ UNCHANGED << allButDm, dmFile, dmError, dmSuccess, dmDocuments, dmInFlight,
                  dmUploadCalls, storeDocs >>

\* onChange of the dialog's file input
SelectFile(f) ==
  /\ dmConfirm' = "none"
  /\ UNCHANGED << dmDeleteCalls, dmPreview >>
  /\ DocumentManagerMounted
  /\ dmOpenUpload
  /\ dmFile # f
  /\ dmFile' = f
  /\ UNCHANGED << allButDm, dmOpenUpload, dmError, dmSuccess, dmDocuments, dmInFlight,
                  dmUploadCalls, storeDocs >>

\* onClose of the dialog and its Cancel button
CloseUploadDialog ==
  /\ dmConfirm' = "none"
  /\ UNCHANGED << dmDeleteCalls, dmPreview >>
  /\ DocumentManagerMounted
  /\ dmOpenUpload
  /\ dmOpenUpload' = FALSE
  /\ dmFile' = NoFile
  /\ UNCHANGED << allButDm, dmError, dmSuccess, dmDocuments, dmInFlight,
                  dmUploadCalls, storeDocs >>

\* DocumentManager.handleUpload up to its await (the dialog's Upload button
\* is disabled while no file is selected)
HandleUpload ==
  /\ dmConfirm' = "none"
  /\ UNCHANGED << dmDeleteCalls, dmPreview >>
  /\ DocumentManagerMounted
  /\ dmOpenUpload
  /\ dmFile # NoFile
  /\ IF UploadVerdict(dmFile) # "ok"
       THEN /\ dmError' = UploadVerdict(dmFile)
            /\ UNCHANGED << dmInFlight, dmUploadCalls >>
       ELSE /\ Len(dmUploadCalls) + Len(dmDeleteCalls) < MaxDocRequests
            /\ dmInFlight' = dmInFlight \cup
                 { [ n |-> FreeNumber(dmInFlight), kind |-> "upload", file |-> dmFile,
                     orphan |-> FALSE, afterUpload |-> FALSE ] }
            /\ dmUploadCalls' = Append(dmUploadCalls, dmFile)
            /\ UNCHANGED dmError
  /\ UNCHANGED << allButDm, dmOpenUpload, dmFile, dmSuccess, dmDocuments, storeDocs >>

\* the upload response is OK: reset the form, close the dialog, fetch the list
DocUploadOk(u) ==
  /\ dmConfirm' = "none"
  /\ UNCHANGED << dmDeleteCalls, dmPreview >>
  /\ u \in dmInFlight
  /\ u.kind = "upload"
  /\ storeDocs' = storeDocs + 1
  /\ dmFile' = IF u.orphan THEN dmFile ELSE NoFile
  /\ dmOpenUpload' = IF u.orphan THEN dmOpenUpload ELSE FALSE
  /\ dmInFlight' = IF u.orphan THEN dmInFlight \ {u}
                   ELSE (dmInFlight \ {u}) \cup { ListFetch(dmInFlight \ {u}, TRUE) }
  /\ UNCHANGED << allButDm, dmError, dmSuccess, dmDocuments, dmUploadCalls >>

\* a catch block that also closes the dialog and resets the form
DocUploadFail_Closes(u) ==
  /\ dmConfirm' = "none"
  /\ UNCHANGED << dmDeleteCalls, dmPreview >>
  /\ u \in dmInFlight
  /\ u.kind = "upload"
  /\ dmInFlight' = dmInFlight \ {u}
  /\ dmError' = IF u.orphan THEN dmError ELSE "Failed to upload document"
  /\ dmOpenUpload' = FALSE
  /\ dmFile' = NoFile
  /\ UNCHANGED << allButDm, dmSuccess, dmDocuments, dmUploadCalls, storeDocs >>

\* the upload is rejected by the server or the network
DocUploadFail(u) ==
  /\ dmConfirm' = "none"
  /\ UNCHANGED << dmDeleteCalls, dmPreview >>
  /\ u \in dmInFlight
  /\ u.kind = "upload"
  /\ dmInFlight' = dmInFlight \ {u}
  /\ dmError' = IF u.orphan THEN dmError ELSE "Failed to upload document"
  /\ UNCHANGED << allButDm, dmOpenUpload, dmFile, dmSuccess, dmDocuments,
                  dmUploadCalls, storeDocs >>

\* fetchDocuments resolves with the store's list
DocListLoaded(l) ==
  /\ dmConfirm' = "none"
  /\ UNCHANGED << dmDeleteCalls, dmPreview >>
  /\ l \in dmInFlight
  /\ l.kind = "list"
  /\ dmInFlight' = dmInFlight \ {l}
  /\ dmDocuments' = storeDocs
  /\ dmSuccess' = IF l.afterUpload THEN TRUE ELSE dmSuccess
  /\ UNCHANGED << allButDm, dmOpenUpload, dmFile, dmError, dmUploadCalls, storeDocs >>

\* fetchDocuments fails
DocListFail(l) ==
  /\ dmConfirm' = "none"
  /\ UNCHANGED << dmDeleteCalls, dmPreview >>
  /\ l \in dmInFlight
  /\ l.kind = "list"
  /\ dmInFlight' = dmInFlight \ {l}
  /\ dmError' = "Failed to load documents"
  /\ dmSuccess' = IF l.afterUpload THEN TRUE ELSE dmSuccess
  /\ UNCHANGED << allButDm, dmOpenUpload, dmFile, dmDocuments, dmUploadCalls,
                  storeDocs >>

\* onClose of the error and success Snackbars
CloseDocAlerts ==
  /\ dmConfirm' = "none"
  /\ UNCHANGED << dmDeleteCalls, dmPreview >>
  /\ DocumentManagerMounted
  /\ dmError # "null" \/ dmSuccess
  /\ dmError' = "null"
  /\ dmSuccess' = FALSE
  /\ UNCHANGED << allButDm, dmOpenUpload, dmFile, dmDocuments, dmInFlight,
                  dmUploadCalls, storeDocs >>

\* window.confirm: the request goes out only on OK
Confirmed_Always(answer) == TRUE

Confirmed(answer) == answer

\* DocumentManager.handleDelete up to its await, from the delete button of a
\* row of the table; window.confirm blocks until the user has answered
HandleDelete(row, answer) ==
  /\ DocumentManagerMounted
  /\ dmPreview.previewDocument = 0
  /\ row \in 1..dmDocuments
  /\ dmConfirm' = IF answer THEN "confirmed" ELSE "declined"
  /\ IF ~Confirmed(answer)
       THEN UNCHANGED << dmInFlight, dmDeleteCalls >>
       ELSE /\ Len(dmUploadCalls) + Len(dmDeleteCalls) < MaxDocRequests
            /\ dmInFlight' = dmInFlight \cup
                 { [ n |-> FreeNumber(dmInFlight), kind |-> "delete", file |-> NoFile,
                     orphan |-> FALSE, afterUpload |-> FALSE ] }
            /\ dmDeleteCalls' = Append(dmDeleteCalls, row)
  /\ UNCHANGED << allButDm, dmOpenUpload, dmFile, dmError, dmSuccess, dmDocuments,
                  dmUploadCalls, dmPreview, storeDocs >>

\* the delete response is OK: show the success message and fetch the list
DocDeleteOk(d) ==
  /\ d \in dmInFlight
  /\ d.kind = "delete"
  /\ storeDocs > 0
  /\ storeDocs' = storeDocs - 1
  /\ dmSuccess' = IF d.orphan THEN dmSuccess ELSE TRUE
  /\ dmInFlight' = IF d.orphan THEN dmInFlight \ {d}
                   ELSE (dmInFlight \ {d}) \cup { ListFetch(dmInFlight \ {d}, FALSE) }
  /\ dmConfirm' = "none"
  /\ UNCHANGED << allButDm, dmOpenUpload, dmFile, dmError, dmDocuments, dmUploadCalls,
                  dmDeleteCalls, dmPreview >>

\* the delete request fails or the response is not OK
DocDeleteFail(d) ==
  /\ d \in dmInFlight
  /\ d.kind = "delete"
  /\ dmInFlight' = dmInFlight \ {d}
  /\ dmError' = IF d.orphan THEN dmError ELSE "Failed to delete document"
  /\ dmConfirm' = "none"
  /\ UNCHANGED << allButDm, dmOpenUpload, dmFile, dmSuccess, dmDocuments,
                  dmUploadCalls, dmDeleteCalls, dmPreview, storeDocs >>

\* ---------------------------------------------------------- document preview
dmOthers == << dmOpenUpload, dmFile, dmError, dmSuccess, dmDocuments, dmInFlight,
               dmUploadCalls, dmDeleteCalls, storeDocs >>

\* the preview icon of a row: setPreviewDocument(doc); the DocumentPreview
\* effect then sets loading, clears the error and fetches the preview
OpenPreview(row) ==
  /\ DocumentManagerMounted
  /\ ~dmOpenUpload
  /\ dmPreview.previewDocument = 0
  /\ row \in 1..dmDocuments
  /\ dmPreview.calls < MaxDocRequests
  /\ dmPreview' = [dmPreview EXCEPT !.previewDocument = row,
                                    !.loading = TRUE,
                                    !.error = FALSE,
                                    !.inFlight = @ \cup
                                      { [ n |-> dmPreview.calls + 1, doc |-> row ] },
                                    !.calls = @ + 1]
  /\ dmConfirm' = "none"
  /\ UNCHANGED << allButDm, dmOthers >>

\* onClose of the preview dialog: setPreviewDocument(null); the effect runs
\* and does nothing
ClosePreview ==
  /\ DocumentManagerMounted
  /\ dmPreview.previewDocument # 0
  /\ dmPreview' = [dmPreview EXCEPT !.previewDocument = 0]
  /\ dmConfirm' = "none"
  /\ UNCHANGED << allButDm, dmOthers >>

\* the text a preview response puts on screen: the preview of document doc
PreviewText(doc) == doc

\* the preview request p resolves
PreviewLoaded(p) ==
  /\ p \in dmPreview.inFlight
  /\ dmPreview' = [dmPreview EXCEPT !.preview = PreviewText(p.doc),
                                    !.loading = FALSE,
                                    !.inFlight = @ \ {p}]
  /\ dmConfirm' = "none"
  /\ UNCHANGED << allButDm, dmOthers >>

\* the preview request p fails or the response is not OK
PreviewFail(p) ==
  /\ p \in dmPreview.inFlight
  /\ dmPreview' = [dmPreview EXCEPT !.error = TRUE,
                                    !.loading = FALSE,
                                    !.inFlight = @ \ {p}]
  /\ dmConfirm' = "none"
  /\ UNCHANGED << allButDm, dmOthers >>

\* ------------------------------------------------------------ specification
\* The chat and everything that reaches it: the tabs, the four Chatbot
\* versions, the attachments, and for the props version the questionnaire
\* answers and the documents its App hands down.  The questionnaire round
\* trip of App.js reaches the other versions only by selecting a tab, which
\* TabChange does at any time; SpecApp has it.
Next ==
  \/ \E t \in 0..3 : TabChange(t)
  \/ \E v \in Inputs : SetInput(v)
  \/ SendClick
  \/ KeyPressEnter
  \/ \E req \in chatInFlight : \E reply \in Replies \cup {SimReply} : ChatResponse(req, reply)
  \/ \E req \in chatInFlight : ChatFail(req)
  \/ CloseError
  \/ \E f \in ChatFiles : HandleFileUpload(<<f>>)
  \/ \E u \in uploadInFlight : UploadOk(u)
  \/ \E u \in uploadInFlight : UploadFail(u)
  \/ \E i \in 1..MaxRequests : HandleRemoveFile(i)
  \/ \E e \in Edits : FormChange(e[1], e[2])
  \/ QuestionnaireSubmitDirect
  \/ \E n \in 0..1 : DocumentsLoaded(n)

Spec == Init /\ [][Next]_vars

\* the simulated version's setTimeout callback: a timer that was set fires
TimerFires ==
  /\ version = "sim"
  /\ \E req \in chatInFlight : ChatResponse(req, SimReply)

\* the chat endpoint answers every request, with a response or, when its
\* upstream call times out, with a failure
ServerAnswers ==
  \E req \in chatInFlight :
    \/ \E reply \in Replies : ChatResponse(req, reply)
    \/ ChatFail(req)

\* the chat turns alone, in all four versions
NextTurns ==
  \/ \E t \in 0..3 : TabChange(t)
  \/ \E v \in Inputs : SetInput(v)
  \/ SendClick
  \/ KeyPressEnter
  \/ TimerFires
  \/ ServerAnswers
  \/ CloseError

\* the chat turns with what scheduling guarantees: timers fire and the server
\* answers.  Nothing makes the user act.
SpecLive ==
  Init /\ [][NextTurns]_vars /\ WF_vars(TimerFires) /\ WF_vars(ServerAnswers)

\* App.js with its questionnaire round trip and the api version of the chat
InitApp == Init /\ version = "api"

NextApp ==
  \/ \E t \in 0..2 : TabChange(t)
  \/ \E e \in FormEdits : FormChange(e[1], e[2])
  \/ QuestionnaireSubmit
  \/ \E q \in qInFlight : \E gl \in GuidelineLists : QuestionnaireOk(q, gl)
  \/ \E q \in qInFlight : QuestionnaireFail(q)
  \/ \E v \in Inputs : SetInput(v)
  \/ SendClick
  \/ KeyPressEnter
  \/ \E req \in chatInFlight : \E reply \in Replies : ChatResponse(req, reply)
  \/ \E req \in chatInFlight : ChatFail(req)

SpecApp == InitApp /\ [][NextApp]_vars

\* the App of the props version with its document manager
InitDocs == Init /\ version = "props"

NextDocs ==
  \/ \E t \in 0..3 : TabChange(t)
  \/ OpenUploadDialog
  \/ \E f \in DocFiles : SelectFile(f)
  \/ CloseUploadDialog
  \/ HandleUpload
  \/ \E u \in dmInFlight : DocUploadOk(u)
  \/ \E u \in dmInFlight : DocUploadFail(u)
  \/ \E l \in dmInFlight : DocListLoaded(l)
  \/ \E l \in dmInFlight : DocListFail(l)
  \/ CloseDocAlerts
  \/ \E row \in 1..MaxDocRequests : \E answer \in BOOLEAN : HandleDelete(row, answer)
  \/ \E d \in dmInFlight : DocDeleteOk(d)
  \/ \E d \in dmInFlight : DocDeleteFail(d)

SpecDocs == InitDocs /\ [][NextDocs]_vars

\* the App of the props version with its questionnaire and its chat
InitLog == Init /\ version = "props"

NextLog ==
  \/ \E t \in 0..3 : TabChange(t)
  \/ \E v \in Inputs : SetInput(v)
  \/ SendClick
  \/ KeyPressEnter
  \/ \E req \in chatInFlight : \E reply \in Replies : ChatResponse(req, reply)
  \/ \E req \in chatInFlight : ChatFail(req)
  \/ CloseError
  \/ \E e \in Edits : FormChange(e[1], e[2])
  \/ QuestionnaireSubmitDirect
  \/ \E n \in 0..1 : DocumentsLoaded(n)

SpecLog == InitLog /\ [][NextLog]_vars

\* documents already in the store when the page loads
StoredDocs == 2

\* the App of the props version over a store that holds documents
InitPreview == InitClient /\ version = "props" /\ storeDocs = StoredDocs

NextPreview ==
  \/ \E t \in 0..3 : TabChange(t)
  \/ \E l \in dmInFlight : DocListLoaded(l)
  \/ \E l \in dmInFlight : DocListFail(l)
  \/ \E row \in 1..StoredDocs : OpenPreview(row)
  \/ ClosePreview
  \/ \E p \in dmPreview.inFlight : PreviewLoaded(p)
  \/ \E p \in dmPreview.inFlight : PreviewFail(p)
  \/ OpenUploadDialog
  \/ CloseUploadDialog

SpecPreview == InitPreview /\ [][NextPreview]_vars

TypeOK ==
  /\ version \in Versions
  /\ dmPreview.calls \in 0..MaxDocRequests
  /\ dmPreview.previewDocument \in 0..dmDocuments
  /\ tab \in Tabs(version)
  /\ nextTurn \in 1..(MaxRequests + 1)
  /\ isTyping \in BOOLEAN
  /\ error \in BOOLEAN
  /\ lastSend \in {"none", "rejected", "accepted"}
  /\ Len(chatCalls) <= MaxRequests

\* ================================================================== claims
IsPrefix(a, b) == Len(a) <= Len(b) /\ SubSeq(b, 1, Len(a)) = a

\* a send attempt was made in this step (handleSend ran)
SendAttempt == lastSend' # "none"

C2_LogAppendOnly == [][ IsPrefix(messages, messages') ]_vars

\* ---------------------------------------------------------------------- C3
\* C3: chat turns are serialized: at most one chat request of the mounted
\* conversation is in flight in any state.
C3_OneInFlight == Cardinality({ r \in chatInFlight : ~r.orphan }) <= 1

CallsOfTurn(t) == { i \in 1..Len(chatCalls) : chatCalls[i].turn = t }

ContextOf(body) == IF "context" \in DOMAIN body THEN body.context ELSE <<>>

InContext(text, body) ==
  \E k \in 1..Len(ContextOf(body)) : ContextOf(body)[k] = text

\* C6: the context sent with a turn contains, verbatim, the user message and
\* the assistant response of every earlier turn that succeeded.
C6_ContextHasHistory ==
  [][ Len(chatCalls') > Len(chatCalls) =>
        \A i, j \in 1..Len(messages) :
          ( /\ i < j
            /\ messages[i].type = "user"
            /\ messages[j].type = "bot" /\ ~messages[j].isError
            /\ messages[i].turn = messages[j].turn )
          => /\ InContext(messages[i].text, chatCalls'[Len(chatCalls')].body)
             /\ InContext(messages[j].text, chatCalls'[Len(chatCalls')].body) ]_vars

\* ---------------------------------------------------------------------- C7
IsReply(m) == m.type = "bot" /\ ~m.isError

\* C7: in the log every response comes after the user message it answers
\* and the responses appear in the order in which their turns were sent.
C7_TurnsInSentOrder ==
  \A i, j \in 1..Len(messages) :
    /\ ( messages[i].type = "user" /\ IsReply(messages[j])
         /\ messages[i].turn = messages[j].turn ) => i < j
    /\ ( IsReply(messages[i]) /\ IsReply(messages[j]) /\ i < j )
         => messages[i].turn < messages[j].turn

\* ---------------------------------------------------------------------- C8
\* what the user sees of a failure: the Snackbar (props) or an entry of the
\* log marked isError, in the mounted chat
ErrorShown(turn) ==
  /\ ChatMounted
  /\ \/ version = "props" /\ error
     \/ \E i \in 1..Len(messages) :
          messages[i].isError /\ messages[i].turn = turn

\* C8: after a failed chat turn an error indication is shown to the user,
\* carried by an entry marked as an error.
C8_FailureShown ==
  [][ \A req \in chatInFlight : ChatFail(req) => ErrorShown(req.turn)' ]_vars

\* ---------------------------------------------------------------- C9, C10
\* every file handed to an upload request, by the chat or the document manager
UploadedFiles ==
  UNION { { uploadCalls[i][k] : k \in 1..Len(uploadCalls[i]) } :
            i \in 1..Len(uploadCalls) }
    \cup { dmUploadCalls[i] : i \in 1..Len(dmUploadCalls) }

EndsWith(s, suffix) ==
  /\ Len(suffix) <= Len(s)
  /\ SubSeq(s, Len(s) - Len(suffix) + 1, Len(s)) = suffix

\* the name ends, case-insensitively, in one of the accepted extensions
HasAllowedExtension(name) ==
  \E e \in AllowedTypes : EndsWith(ToLowerCase(name), e)

\* C9: no upload request is ever issued for a file larger than 10 MB, on the
\* document manager path and on the chat attachment path.
C9_NoOversizedUpload == \A f \in UploadedFiles : f.size <= MaxFileBytes

\* C10: an upload request is issued only for a file whose name ends,
\* case-insensitively, in .pdf, .doc, .docx or .txt.
C10_OnlyAllowedExtensions == \A f \in UploadedFiles : HasAllowedExtension(f.name)

\* --------------------------------------------------------------------- C11
\* C11: a questionnaire submission in which a field is missing or empty is
\* never treated as a success: the answers the application has stored are
\* always complete.
C11_IncompleteNeverStored ==
  questionnaireData # NoData => ValidAnswers(questionnaireData)

\* --------------------------------------------------------------------- C12
\* some failure indication is on the chat page
FailureVisible ==
  \/ version = "props" /\ error
  \/ \E i \in 1..Len(messages) : messages[i].isError

\* C12: every failed backend call made for the user ends in a state that
\* reports the failure: a chat turn or an attachment upload that fails while
\* the chat is on screen leaves a failure indication on it.
C12_FailuresReported ==
  [][ /\ \A req \in chatInFlight :
           (ChatFail(req) /\ ~req.orphan) => FailureVisible'
      /\ \A u \in uploadInFlight :
           (UploadFail(u) /\ ~u.orphan) => FailureVisible' ]_vars

\* --------------------------------------------------------------------- C13
\* the two answers the application can get for an empty corpus: the call
\* fails (NoCorpusAvailable), or it succeeds with an empty list
EmptyCorpusAnswer(q) == QuestionnaireFail(q) \/ QuestionnaireOk(q, <<>>)

\* C13: a questionnaire submission against an empty corpus ends in a state
\* whose guidelines page differs from the page before any submission.
C13_EmptyCorpusDistinct ==
  [][ \A q \in qInFlight :
        EmptyCorpusAnswer(q) =>
          GuidelinesView(guidelines', questionnaireData') # GuidelinesView(<<>>, NoData) ]_vars

\* --------------------------------------------------------------------- C14
\* C14: once a questionnaire has been submitted successfully, every later
\* chat request carries the stored answers.
C14_RequestsCarryAnswers ==
  [][ (Len(chatCalls') > Len(chatCalls) /\ questionnaireData # NoData) =>
        LET body == chatCalls'[Len(chatCalls')].body
        IN  /\ "questionnaire_data" \in DOMAIN body
            /\ body.questionnaire_data = questionnaireData ]_vars

C16_IndicatorTracksRequests ==
  /\ (\E req \in chatInFlight : ~req.orphan) => isTyping
  /\ chatInFlight = {} => ~isTyping

\* --------------------------------------------------------------------- C17
\* the text a chat request carries
TextOf(body) == IF "content" \in DOMAIN body THEN body.content ELSE body.message

\* C17: right after an accepted send the input field is empty and the last
\* entry of the log is the user's message with the text that was sent: the
\* text of the request, which is what was typed once it is trimmed.
C17_SendShowsMessage ==
  [][ lastSend' = "accepted" =>
        /\ input' = <<>>
        /\ Len(messages') = Len(messages) + 1
        /\ LET m == messages'[Len(messages')]
           IN  /\ m.type = "user"
               /\ Trim(input) # <<>> => Trim(m.text) = Trim(input)
               /\ version # "sim" => m.text = TextOf(chatCalls'[Len(chatCalls')].body) ]_vars

\* ' a' was sent in the api version and no response has arrived yet
C17_Witness ==
  /\ version = "api"
  /\ lastSend = "accepted"
  /\ input = <<>>
  /\ chatInFlight # {}
  /\ messages[Len(messages)].type = "user"
  /\ messages[Len(messages)].text = <<"a">>

\* --------------------------------------------------------------------- C18
\* the welcome message of the log, or the placeholder the api and attachments
\* versions render over an empty log
WelcomeDisplayed ==
  \/ Len(messages) > 0 /\ messages[1] = WelcomeMsg
  \/ version \in {"api", "attach"} /\ messages = <<>>

\* C18: when the chat is rendered with no questionnaire data and before any
\* message was sent, a welcome message is displayed.
C18_WelcomeOnFirstRender ==
  (ChatMounted /\ questionnaireData = NoData /\ nextTurn = 1) => WelcomeDisplayed

\* --------------------------------------------------------------------- C19
\* C19: a delete request is issued only after the user has confirmed the
\* deletion; declining issues no request and leaves the document list and
\* the store unchanged; the store loses a document only to a delete request.
C19_DeleteOnlyOnConfirm ==
  [][ /\ Len(dmDeleteCalls') > Len(dmDeleteCalls) => dmConfirm' = "confirmed"
      /\ dmConfirm' = "declined" =>
           UNCHANGED << dmDeleteCalls, dmInFlight, dmDocuments, storeDocs >>
      /\ storeDocs' < storeDocs => \E d \in dmInFlight : d.kind = "delete" ]_vars

\* the user has just declined to delete the one document on display
C19_Witness ==
  /\ dmConfirm = "declined"
  /\ dmDocuments = 1
  /\ storeDocs = 1
  /\ dmDeleteCalls = <<>>

\* --------------------------------------------------------------------- C20
NonIncreasing(seq) == \A i, j \in 1..Len(seq) : i < j => seq[i] >= seq[j]

UploadPending == \E u \in uploadInFlight : ~u.orphan

\* C21: a chat request is never issued while an attachment upload is still
\* pending.
C21_NoSendWhileUploading ==
  [][ (version = "attach" /\ lastSend' = "accepted") => ~UploadPending ]_vars

\* --------------------------------------------------------------------- C22
\* C22: the attached-file list and the attachment-id list stay aligned: the
\* i-th id is the id the server returned for the i-th attached file, and
\* whenever no upload is in flight the two lists have the same length.
C22_ListsAligned ==
  /\ \A i \in 1..Len(attachmentIds) :
       /\ i <= Len(files)
       /\ idOwner[attachmentIds[i]] = files[i]
  /\ ~UploadPending => Len(files) = Len(attachmentIds)

\* --------------------------------------------------------------------- C23
\* C23: when a chat turn of the attachments version succeeds, the file list
\* and the id list are both cleared; when it fails, the failure leaves both
\* lists as they are.
C23_AttachmentsAfterTurn ==
  [][ \A req \in chatInFlight :
        (version = "attach" /\ ~req.orphan) =>
          /\ (\E reply \in Replies : ChatResponse(req, reply)) =>
               (files' = <<>> /\ attachmentIds' = <<>>)
          /\ ChatFail(req) =>
               (files' = files /\ attachmentIds' = attachmentIds) ]_vars

\* a turn that carried an attachment id has succeeded and the lists are empty
C23_Witness ==
  /\ version = "attach"
  /\ ChatMounted
  /\ files = <<>> /\ attachmentIds = <<>>
  /\ \E i \in 1..Len(chatCalls) : chatCalls[i].body.attachment_ids # <<>>
  /\ \E i \in 1..Len(messages) : IsReply(messages[i])

\* C23 as stated: when the turn fails, the id list is the one the turn was
\* sent with.
C23_AsWhenSent ==
  [][ \A req \in chatInFlight :
        (version = "attach" /\ ~req.orphan /\ ChatFail(req)) =>
          attachmentIds' = req.body.attachment_ids ]_vars

\* --------------------------------------------------------------------- C24
\* C24: a failed attachment upload leaves the attachment state as it was
\* before the attempt: once no upload is pending, no file is left without
\* an id, so sending is not blocked.
C24_FailedUploadLeavesNoFile ==
  [][ \A u \in uploadInFlight :
        (UploadFail(u) /\ ~u.orphan /\ ~UploadPending') =>
          Len(files') <= Len(attachmentIds') ]_vars

\* --------------------------------------------------------------------- C25
\* the latest post to /questionnaire has been answered with OK and no
\* response is outstanding
LastPostStored == /\ qInFlight = {}
                  /\ qLog # <<>>
                  /\ qLog[Len(qLog)].outcome = "ok"

\* C25: when questionnaire submissions overlap, after all their responses
\* have arrived the stored answers are those of the submission made last,
\* whatever order the responses arrived in.
C25_LastSubmissionWins ==
  LastPostStored => questionnaireData = qLog[Len(qLog)].form

\* --------------------------------------------------------------------- C26
\* C26: a failed questionnaire submission leaves the stored answers, the
\* stored guidelines and the selected tab unchanged.
C26_FailedSubmitKeepsState ==
  [][ \A n \in 1..Len(qLog) :
        (qLog[n].outcome = "pending" /\ qLog'[n].outcome = "failed") =>
          /\ questionnaireData' = questionnaireData
          /\ guidelines' = guidelines
          /\ tab' = tab ]_vars

\* a submission has failed after an earlier one had stored answers and a
\* non-empty list of guidelines
C26_Witness ==
  /\ \E n \in 1..Len(qLog) : qLog[n].outcome = "failed"
  /\ questionnaireData # NoData
  /\ guidelines # <<>>
  /\ qInFlight = {}

\* --------------------------------------------------------------------- C27
\* C27: in the document preview, whenever a document is selected, loading is
\* finished and no error is shown, the preview text is the preview of the
\* selected document, also when the selection changed while an earlier
\* preview request was in flight; and every response ends loading.
C27_PreviewOfSelected ==
  ( /\ dmPreview.previewDocument # 0
    /\ ~dmPreview.loading
    /\ ~dmPreview.error )
  => dmPreview.preview = PreviewText(dmPreview.previewDocument)

\* --------------------------------------------------------------------- C28
\* the response to the upload u of the mounted document manager arrives
UploadAnswered(u) == /\ u \in dmInFlight
                     /\ u.kind = "upload"
                     /\ ~u.orphan
                     /\ \A r \in dmInFlight' : r.kind = "upload" => r.n # u.n

\* C28: in the document manager a successful upload resets the form, closes
\* the upload dialog and fetches the document list again; an upload that
\* fails validation or is rejected by the server sets an error and leaves
\* the dialog, the form data and the document list as they are.
C28_UploadOutcomes ==
  [][ /\ \A u \in dmInFlight :
           /\ (UploadAnswered(u) /\ storeDocs' = storeDocs + 1) =>
                /\ dmFile' = NoFile
                /\ dmOpenUpload' = FALSE
                /\ \E l \in dmInFlight' : l \notin dmInFlight /\ l.kind = "list"
           /\ (UploadAnswered(u) /\ storeDocs' = storeDocs) =>
                /\ dmError' # "null"
                /\ UNCHANGED << dmOpenUpload, dmFile, dmDocuments >>
      /\ (HandleUpload /\ UploadVerdict(dmFile) # "ok") =>
           /\ dmError' # "null"
           /\ dmOpenUpload'
           /\ UNCHANGED << dmFile, dmDocuments, dmInFlight, dmUploadCalls >> ]_vars

\* one upload has succeeded and is in the refreshed list, and a second one
\* has been rejected by the server: the dialog is still open with its file
C28_Witness ==
  /\ Len(dmUploadCalls) = 2
  /\ storeDocs = 1
  /\ dmDocuments = 1
  /\ dmError = "Failed to upload document"
  /\ dmOpenUpload
  /\ dmFile # NoFile

\* --------------------------------------------------------------------- C29
\* C29: the answers handed over at submit are never changed afterwards: an
\* edit of the form leaves the stored answers, the answers of the posts in
\* flight and every request already built unchanged.
C29_AnswersNeverMutated ==
  [][ (tab' = tab /\ formData' # formData) =>
        UNCHANGED << questionnaireData, qInFlight, qLog, chatInFlight, chatCalls >> ]_vars

\* the form has been edited after its answers were stored
C29_Witness ==
  /\ QuestionnaireMounted
  /\ questionnaireData # NoData
  /\ formData # InitialForm
  /\ formData # questionnaireData

\* --------------------------------------------------------------------- C30
\* logs the effect can be handed: up to two entries out of the welcome, a
\* summary, a user message and a reply
EffectEntries == { WelcomeMsg, SummaryMsg(InitialForm, 0),
                   Msg("user", FALSE, <<"a">>, 1), Msg("bot", FALSE, <<"r">>, 1) }
EffectLogs == {<<>>} \cup { <<a>> : a \in EffectEntries }
                     \cup { <<a, b>> : a \in EffectEntries, b \in EffectEntries }

\* from every log, one pass of the effects leaves nothing for a second pass
SettlesInOnePass(qd, docs) ==
  \A msgs \in EffectLogs : \A mounted \in BOOLEAN :
    Settle(msgs, qd, docs, mounted) = EffectPass(msgs, qd, docs, mounted)

\* C30: the effect that initialises the log reaches a fixpoint: after every
\* operation the log is one the effect leaves alone; with the questionnaire
\* data and the document count of any state the program passes through, it
\* rewrites any log at most once; and once the log holds the questionnaire
\* summary a chat message is appended without the log being rewritten.
C30_EffectReachesFixpoint ==
  [][ version = "props" =>
        /\ EffectPass(messages', questionnaireData', documents', ChatMounted') = messages'
        /\ << questionnaireData, documents >>' # << questionnaireData, documents >> =>
             /\ SettlesInOnePass(questionnaireData, documents)
             /\ SettlesInOnePass(questionnaireData', documents')
        /\ HasSummary(messages) =>
             /\ IsPrefix(messages, messages')
             /\ lastSend' = "accepted" => Len(messages') = Len(messages) + 1 ]_vars

\* a message was sent and answered after the summary was written
C30_Witness ==
  /\ version = "props"
  /\ HasSummary(messages)
  /\ Len(messages) >= 3
  /\ IsReply(messages[Len(messages)])

====
